---- MODULE Spec2Model ----
(***************************************************************************)
(* Model of the OCR worker pipeline: the top-level task ocr_document_task  *)
(* with its automatic retry, the celery workflow it submits (group of      *)
(* ocr_page_task, then stitch_pages_task, update_db_task, generate_preview *)
(* and notify_index_task), and the S3 mirror functions of ocrworker/s3.py. *)
(***************************************************************************)
EXTENDS Integers, Sequences, FiniteSets, TLC

VARIABLES
    settings,    \* [bucket, key_id, secret]: which S3 settings are set
    ext,         \* extension of the source version's file name
    nPages,      \* number of pages of the source version
    local,       \* keys of the files present under the media root
    bad,         \* local files whose content is not what their name says
    remote,      \* keys of the objects present in the bucket
    evictions,   \* number of times the local cache was lost
    topSt,       \* "queued" | "submitted" | "failed": ocr_document_task
    retries,     \* request.retries of ocr_document_task
    attempts,    \* number of executions of ocr_document_task
    topExc,      \* exception raised by the last execution ("none" if none)
    delay,       \* countdown with which the pending execution was scheduled
    uuidCount,   \* number of uuid4() values drawn so far
    firstIds,    \* identifiers allocated by the first execution
    lastIds,     \* identifiers allocated by the latest execution
    prevIds,     \* identifiers allocated by the executions before it
    pageKw,      \* kwargs of the ocr_page_task signatures of the workflow
    chainKw,     \* kwargs of the stitch / update_db signatures
    pageSt,      \* state of each ocr_page_task
    chainSt,     \* state of stitch, update_db, preview, notify
    stitched,    \* the srcs list handed to utils.stitch_pdf
    db,          \* committed rows of the metadata store
    outbox,      \* messages sent with celery_app.send_task
    mirrorLog,   \* the s3 functions called by the last executed task
    pageWrites   \* per page task, the local paths and remote keys it wrote

vars == <<settings, ext, nPages, local, bad, remote, evictions, topSt,
          retries, attempts, topExc, delay, uuidCount, firstIds, lastIds,
          prevIds, pageKw, chainKw, pageSt, chainSt, stitched, db, outbox, mirrorLog,
          pageWrites>>

\* ------------------------------------------------------------------ bounds
MaxPages == 2
MaxEvict == 1
MaxUploads == 2

\* ------------------------------------------------------- program constants
max_retries == 6
countdown == 10
preview_width == 300

DocumentId == "doc"
SrcDocVerId == 0
Lang == "ENG"

\* Answers of the object store to one request: the real answer ("none": no
\* fault), an authentication failure (a ClientError that is not 404), or a
\* network failure (an exception that is no ClientError).
Faults == {"none", "403", "net"}

Extensions == {"pdf", "png", "txt"}

\* ------------------------------------------------------------ storage keys
DocverKey(docver_id) == <<"docver", docver_id>>
PagePdf(page_id) == <<"page", page_id, "pdf">>
PageTxt(page_id) == <<"page", page_id, "txt">>
PageDirKeys(page_id) == {PagePdf(page_id), PageTxt(page_id)}

\* Directories of the media root: a page's folder and <media root>/ocr.
PageDir(page_id) == <<"dir", page_id>>
OcrDir == <<"ocrdir">>

\* Path.is_file: the path names a regular file, not a directory.
is_file(k) == k[1] \notin {"dir", "ocrdir"}

\* A storage context threaded through the s3 functions of one task: the
\* files, the objects, the log of the functions called, the exception raised.
Ctx(l, b, r, log, exc) ==
    [local |-> l, bad |-> b, remote |-> r, log |-> log, exc |-> exc]

\* One request sent to the object store and its answer.
Call(name, resp) == [call |-> name, resp |-> resp]

\* What a function body yields: the context it leaves and the requests sent.
Ret(c, calls) == [c |-> c, calls |-> calls]

\* The log entry of one call of an s3 function: its keys, whether they were
\* all present locally before, the requests, the exception, and whether the
\* local files changed.
Logged(c, op, keys, r) ==
    [r.c EXCEPT !.log = Append(@,
        [op |-> op, keys |-> keys, had |-> keys \subseteq c.local,
         calls |-> r.calls, exc |-> r.c.exc,
         changed |-> r.c.local # c.local \/ r.c.bad # c.bad])]

\* ----------------------------------------------------------------- s3.py
is_enabled_any_set(s) == s.bucket \/ s.key_id \/ s.secret

is_enabled(s) == s.bucket /\ s.key_id /\ s.secret

\* What the store answers to a read of key k under fault f.
Response(rem, k, f) ==
    IF f = "none" THEN (IF k \in rem THEN "200" ELSE "404") ELSE f

\* obj_exists: [val, exc, resp]. Every ClientError (404 and 403 alike) is
\* caught and answered False; any other exception leaves the function.
obj_exists(rem, k, f) ==
    LET resp == Response(rem, k, f)
    IN  IF resp = "200" THEN [val |-> TRUE, exc |-> "none", resp |-> resp]
        ELSE IF resp = "net"
        THEN [val |-> FALSE, exc |-> "ConnectionError", resp |-> resp]
        ELSE [val |-> FALSE, exc |-> "none", resp |-> resp]

\* client.download_file: [exc, resp] ("none": the file is written).
download_file(rem, k, g) ==
    LET resp == Response(rem, k, g)
    IN  IF resp = "200" THEN [exc |-> "none", resp |-> resp]
        ELSE IF resp = "net" THEN [exc |-> "ConnectionError", resp |-> resp]
        ELSE [exc |-> "ClientError", resp |-> resp]

\* skip_if_s3_disabled: the decorated function is not entered when disabled.
skip_if_s3_disabled(s, c, op, keys, body) ==
    IF ~is_enabled(s)
    THEN Logged(c, op, keys, Ret(c, <<>>))
    ELSE Logged(c, op, keys, body)

download_docver_body(c, docver_id, f, g) ==
    LET k == DocverKey(docver_id)
        had == k \in c.local
        ex == obj_exists(c.remote, k, f)
        head == IF had THEN <<>> ELSE <<Call("head_object", ex.resp)>>
        d == download_file(c.remote, k, g)
    IN  IF ~had /\ ex.exc # "none"
        THEN Ret([c EXCEPT !.exc = ex.exc], head)
        ELSE IF ~had /\ ~ex.val
        THEN \* no local version + no s3 version
             Ret([c EXCEPT !.exc = "S3DocumentNotFound"], head)
        ELSE IF d.exc # "none"
        THEN Ret([c EXCEPT !.exc = d.exc],
                 Append(head, Call("download_file", d.resp)))
        ELSE Ret([c EXCEPT !.local = @ \cup {k}, !.bad = @ \ {k}],
                 Append(head, Call("download_file", d.resp)))

download_docver(s, c, docver_id, f, g) ==
    skip_if_s3_disabled(s, c, "download_docver", {DocverKey(docver_id)},
                        download_docver_body(c, docver_id, f, g))

\* s3_client.upload_file: [exc, resp] ("none": the object is stored).
put_object(g) ==
    IF g = "none" THEN [exc |-> "none", resp |-> "200"]
    ELSE IF g = "net" THEN [exc |-> "ConnectionError", resp |-> g]
    ELSE [exc |-> "S3UploadFailedError", resp |-> g]

upload_file_body_versioned(c, k, g) ==
    LET u == put_object(g)
        key == IF k \in c.remote THEN Append(k, "copy") ELSE k
    IN  IF k \notin c.local \/ ~is_file(k) THEN Ret(c, <<>>)
        ELSE IF u.exc # "none"
        THEN Ret([c EXCEPT !.exc = u.exc], <<Call("upload_file", u.resp)>>)
        ELSE Ret([c EXCEPT !.remote = @ \cup {key}],
                 <<Call("upload_file", u.resp)>>)

upload_file_body_unchecked(c, k, g) ==
    LET u == put_object(g)
    IN  IF u.exc # "none"
        THEN Ret([c EXCEPT !.exc = u.exc], <<Call("upload_file", u.resp)>>)
        ELSE Ret([c EXCEPT !.remote = @ \cup {k}],
                 <<Call("upload_file", u.resp)>>)

upload_file_body(c, k, g) ==
    LET u == put_object(g)
    IN  IF k \notin c.local
        THEN \* "Target does not exist. Upload to S3 canceled."
             Ret(c, <<>>)
        ELSE IF ~is_file(k)
        THEN \* "Target is not a file. Upload to S3 canceled."
             Ret(c, <<>>)
        ELSE IF u.exc # "none"
        THEN Ret([c EXCEPT !.exc = u.exc], <<Call("upload_file", u.resp)>>)
        ELSE Ret([c EXCEPT !.remote = @ \cup {k}],
                 <<Call("upload_file", u.resp)>>)

upload_file(s, c, k, g) ==
    skip_if_s3_disabled(s, c, "upload_file", {k}, upload_file_body(c, k, g))

\* The loop of upload_page_dir over the files of the page folder; an
\* exception of one upload ends the loop.
RECURSIVE upload_each(_, _, _, _)
upload_each(s, c, files, g) ==
    IF files = {} \/ c.exc # "none" THEN c
    ELSE LET k == CHOOSE x \in files : TRUE
         IN  upload_each(s, upload_file(s, c, k, g), files \ {k}, g)

upload_page_dir_body(s, c, page_id, g) ==
    Ret(upload_each(s, c, PageDirKeys(page_id) \cap c.local, g), <<>>)

upload_page_dir(s, c, page_id, g) ==
    skip_if_s3_disabled(s, c, "upload_page_dir", PageDirKeys(page_id),
                        upload_page_dir_body(s, c, page_id, g))

download_page_txt_body(c, page_id, f, g) ==
    LET k == PageTxt(page_id)
        ex == obj_exists(c.remote, k, f)
        head == <<Call("head_object", ex.resp)>>
        d == download_file(c.remote, k, g)
    IN  IF k \in c.local
        THEN Ret(c, <<>>)
        ELSE IF ex.exc # "none"
        THEN Ret([c EXCEPT !.exc = ex.exc], head)
        ELSE IF ~ex.val
        THEN \* raise ValueError(f"{keyname} not found on S3")
             Ret([c EXCEPT !.exc = "ValueError"], head)
        ELSE IF d.exc # "none"
        THEN Ret([c EXCEPT !.exc = d.exc],
                 Append(head, Call("download_file", d.resp)))
        ELSE Ret([c EXCEPT !.local = @ \cup {k}, !.bad = @ \ {k}],
                 Append(head, Call("download_file", d.resp)))

download_page_txt(s, c, page_id, f, g) ==
    skip_if_s3_disabled(s, c, "download_page_txt", {PageTxt(page_id)},
                        download_page_txt_body(c, page_id, f, g))

\* The elements of a sequence, as a set.
Range(seq) == {seq[i] : i \in 1..Len(seq)}

\* The members of a sequence that satisfy membership in a set, in order.
RECURSIVE Filter(_, _)
Filter(seq, keep) ==
    IF seq = <<>> THEN <<>>
    ELSE IF Head(seq) \in keep THEN <<Head(seq)>> \o Filter(Tail(seq), keep)
    ELSE Filter(Tail(seq), keep)

\* supervisor / download_one_pdf_page / get_pdf_page: one GET of a presigned
\* url per page, all in flight at once; gs[p] is the fault met by the GET of
\* page p. resp.read() is written to the page's file whatever the status of
\* the response. A transport exception of one GET leaves asyncio.gather at
\* once: of the other pages, those of w had already been written.
supervisor(c, page_ids, gs, w) ==
    LET ids == Range(page_ids)
        gets == [i \in 1..Len(page_ids) |->
                    Call("GET", Response(c.remote, PagePdf(page_ids[i]),
                                         gs[page_ids[i]]))]
        raised == \E p \in ids : gs[p] = "net"
        written == IF raised THEN {p \in ids \cap w : gs[p] # "net"} ELSE ids
        fetched == {p \in written :
                        Response(c.remote, PagePdf(p), gs[p]) = "200"}
    IN  Ret([c EXCEPT
                !.local = @ \cup {PagePdf(p) : p \in written},
                !.bad = (@ \ {PagePdf(p) : p \in fetched})
                            \cup {PagePdf(p) : p \in written \ fetched},
                !.exc = IF raised THEN "TransportError" ELSE "none"],
            gets)

download_pdf_pages_body(c, target_page_ids) ==
    Filter(target_page_ids,
           {p \in Range(target_page_ids) : PagePdf(p) \notin c.local})

download_pdf_pages(s, c, target_page_ids, gs, w) ==
    skip_if_s3_disabled(s, c, "download_pdf_pages",
                        {PagePdf(p) : p \in Range(target_page_ids)},
                        supervisor(c, download_pdf_pages_body(c, target_page_ids), gs, w))

\* ------------------------------------------------ metadata store (ocrworker.db)
\* A session: the committed rows and the rows staged by this session.
SessionOpen(d) == [committed |-> d, pending |-> <<>>]

SessionView(sess) == sess.committed \o sess.pending

SessionExit_commits(sess) == sess.committed \o sess.pending

\* Leaving "with Session() as db_session": what was not committed is lost.
SessionExit(sess) == sess.committed

get_last_version(d) == d[Len(d)]

get_doc_ver(d, doc_ver_id) ==
    LET i == CHOOSE j \in 1..Len(d) : d[j].id = doc_ver_id IN d[i]

get_pages(d, doc_ver_id) == get_doc_ver(d, doc_ver_id).pages

NewVersion(document_id, target_docver_uuid, target_page_uuids, lang) ==
    [id |-> target_docver_uuid, doc |-> document_id,
     pages |-> target_page_uuids,
     text |-> [i \in 1..Len(target_page_uuids) |-> "unset"],
     lang |-> lang]

increment_doc_ver_commits(sess, document_id, target_docver_uuid, target_page_uuids, lang) ==
    [sess EXCEPT !.committed =
        Append(@, NewVersion(document_id, target_docver_uuid,
                             target_page_uuids, lang))]

\* The new version and its pages are staged in the session.
increment_doc_ver(sess, document_id, target_docver_uuid, target_page_uuids, lang) ==
    [sess EXCEPT !.pending =
        Append(@, NewVersion(document_id, target_docver_uuid,
                             target_page_uuids, lang))]

\* The text of every page is set and the session is committed.
update_doc_ver_text(sess, doc_ver_id, streams) ==
    LET view == SessionView(sess)
        done == [j \in 1..Len(view) |->
                    IF view[j].id = doc_ver_id
                    THEN [view[j] EXCEPT !.text = streams]
                    ELSE view[j]]
    IN  [committed |-> done, pending |-> <<>>]

\* ------------------------------------------------------------- tasks.py
guess_type_by_content(e) == "application/pdf"

\* mimetypes.guess_type on the file name.
guess_type(e) ==
    CASE e = "pdf" -> "application/pdf"
      [] e = "png" -> "image/png"
      [] OTHER -> "text/plain"

SupportedTypes == {"application/pdf", "application/image"}

lower(lang) == IF lang = "ENG" THEN "eng" ELSE lang

uuid4_reused(count, k) == k

\* The k-th identifier drawn after `count` identifiers were drawn.
uuid4(count, k) == count + k

autoretry_never(exc, request_retries) == "fail"

autoretry_off_by_one(exc, request_retries) ==
    IF exc = "S3DocumentNotFound" /\ request_retries <= max_retries
    THEN "retry"
    ELSE "fail"

autoretry_any(exc, request_retries) ==
    IF request_retries < max_retries THEN "retry" ELSE "fail"

\* autoretry_for=(S3DocumentNotFound,), max_retries=6: what celery does with
\* an exception leaving ocr_document_task.
autoretry(exc, request_retries) ==
    IF exc = "S3DocumentNotFound" /\ request_retries < max_retries
    THEN "retry"
    ELSE "fail"

per_page_ocr_tasks_zero_based(doc_ver_id, target_docver_uuid, target_page_uuids, lang) ==
    [i \in 1..Len(target_page_uuids) |->
        [doc_id |-> doc_ver_id, doc_ver_id |-> doc_ver_id,
         page_number |-> i - 1,
         target_docver_id |-> target_docver_uuid,
         target_page_id |-> target_page_uuids[i],
         lang |-> lang, preview_width |-> preview_width]]

\* enumerate() counts from 0, TLA+ sequences from 1: index = i - 1.
per_page_ocr_tasks(doc_ver_id, target_docver_uuid, target_page_uuids, lang) ==
    [i \in 1..Len(target_page_uuids) |->
        [doc_id |-> doc_ver_id, doc_ver_id |-> doc_ver_id,
         page_number |-> (i - 1) + 1,
         target_docver_id |-> target_docver_uuid,
         target_page_id |-> target_page_uuids[i],
         lang |-> lang, preview_width |-> preview_width]]

workflow(document_id, doc_ver_id, target_docver_uuid, target_page_uuids, lang) ==
    [stitch |-> [doc_ver_id |-> doc_ver_id,
                 target_docver_id |-> target_docver_uuid,
                 target_page_ids |-> target_page_uuids],
     update_db |-> [doc_id |-> document_id, doc_ver_id |-> doc_ver_id,
                    lang |-> lang,
                    target_docver_id |-> target_docver_uuid,
                    target_page_ids |-> target_page_uuids],
     preview |-> [doc_id |-> document_id],
     notify |-> [doc_id |-> document_id]]

ChainTasks == {"stitch", "update_db", "preview", "notify"}

chord_ready_any(states) == \E i \in 1..Len(states) : states[i] = "success"

\* group(...) | stitch: the body runs once every header task succeeded.
chord_ready(states) == \A i \in 1..Len(states) : states[i] = "success"

chain_ready_always(prev) == TRUE

chain_ready_finished(prev) == prev \in {"success", "failure"}

\* a | b: b runs once a succeeded.
chain_ready(prev) == prev = "success"

\* The identifiers of one allocation, as a set.
IdsOf(ids) == {ids.docver} \cup Range(ids.pages)

NoIds == [docver |-> SrcDocVerId, pages |-> <<>>]

SourceVersion(n) ==
    [id |-> SrcDocVerId, doc |-> DocumentId, pages |-> [i \in 1..n |-> 0 - i],
     text |-> [i \in 1..n |-> "src"], lang |-> "none"]

Init ==
    /\ settings \in [bucket : BOOLEAN, key_id : BOOLEAN, secret : BOOLEAN]
    /\ ext \in Extensions
    /\ nPages \in 1..MaxPages
    /\ local \in {{}, {DocverKey(SrcDocVerId)}}
    /\ bad = {}
    /\ remote \in {{}, {DocverKey(SrcDocVerId)}}
    /\ evictions = 0
    /\ topSt = "queued"
    /\ retries = 0
    /\ attempts = 0
    /\ topExc = "none"
    /\ delay = 0
    /\ uuidCount = 0
    /\ firstIds = NoIds
    /\ lastIds = NoIds
    /\ prevIds = {}
    /\ pageKw = <<>>
    /\ chainKw = <<>>
    /\ pageSt = <<>>
    /\ chainSt = [t \in ChainTasks |-> "none"]
    /\ stitched = <<>>
    /\ db = <<SourceVersion(nPages)>>
    /\ outbox = <<>>
    /\ mirrorLog = <<>>
    /\ pageWrites = <<>>

\* The upload of the source version, still in flight when the task was
\* queued, reaches the bucket.
SourceUploaded ==
    /\ is_enabled(settings)
    /\ topSt = "queued"
    /\ DocverKey(SrcDocVerId) \notin remote
    /\ remote' = remote \cup {DocverKey(SrcDocVerId)}
    /\ UNCHANGED <<pageWrites, settings, ext, nPages, local, bad, evictions, topSt,
                   retries, attempts, topExc, delay, uuidCount, firstIds,
                   lastIds, prevIds, pageKw, chainKw, pageSt, chainSt, stitched, db,
                   outbox, mirrorLog>>

\* A task runs on a worker whose media root holds none of the files (the
\* local cache is an optimisation; the bucket is the store).
ColdCache ==
    /\ is_enabled(settings)
    /\ evictions < MaxEvict
    /\ local # {}
    /\ local' = {}
    /\ bad' = {}
    /\ evictions' = evictions + 1
    /\ UNCHANGED <<pageWrites, settings, ext, nPages, remote, topSt, retries, attempts,
                   topExc, delay, uuidCount, firstIds, lastIds, prevIds, pageKw,
                   chainKw, pageSt, chainSt, stitched, db, outbox, mirrorLog>>

NoWrites == [local |-> {}, remote |-> {}]

apply_async_reached_always(exc) == TRUE

\* workflow.apply_async() is the last statement of ocr_document_task: it is
\* reached when no statement before it raised.
apply_async_reached(exc) == exc = "none"

ocr_document_task ==
    /\ topSt = "queued"
    /\ \E f \in Faults, g \in Faults :
        LET doc_ver == get_last_version(db)
            pages == get_pages(db, doc_ver.id)
            target_docver_uuid == uuid4(uuidCount, 1)
            target_page_uuids ==
                [i \in 1..Len(pages) |-> uuid4(uuidCount, 1 + i)]
            ids == [docver |-> target_docver_uuid,
                    pages |-> target_page_uuids]
            lang == lower(Lang)
            r == download_docver(settings,
                                 Ctx(local, bad, remote, <<>>, "none"),
                                 doc_ver.id, f, g)
            _type == guess_type(ext)
            exc == IF r.exc # "none" THEN r.exc
                   ELSE IF _type \notin SupportedTypes THEN "ValueError"
                   ELSE "none"
        IN  /\ attempts' = attempts + 1
            /\ uuidCount' = uuidCount + 1 + Len(pages)
            /\ lastIds' = ids
            /\ prevIds' = IF attempts = 0 THEN {} ELSE prevIds \cup IdsOf(lastIds)
            /\ firstIds' = IF attempts = 0 THEN ids ELSE firstIds
            /\ local' = r.local
            /\ bad' = r.bad
            /\ remote' = r.remote
            /\ mirrorLog' = r.log
            /\ topExc' = exc
            /\ IF apply_async_reached(exc)
               THEN /\ topSt' = "submitted"
                    /\ pageKw' = per_page_ocr_tasks(doc_ver.id,
                                    target_docver_uuid, target_page_uuids,
                                    lang)
                    /\ chainKw' = workflow(DocumentId, doc_ver.id,
                                    target_docver_uuid, target_page_uuids,
                                    lang)
                    /\ pageSt' = [i \in 1..Len(pages) |-> "pending"]
                    /\ chainSt' = [t \in ChainTasks |-> "waiting"]
                    /\ pageWrites' = [i \in 1..Len(pages) |-> NoWrites]
                    /\ UNCHANGED <<retries, delay>>
               ELSE IF autoretry(exc, retries) = "retry"
               THEN /\ topSt' = "queued"
                    /\ retries' = retries + 1
                    /\ delay' = countdown
                    /\ UNCHANGED <<pageKw, chainKw, pageSt, chainSt,
                                   pageWrites>>
               ELSE /\ topSt' = "failed"
                    /\ UNCHANGED <<retries, delay, pageKw, chainKw, pageSt,
                                   chainSt, pageWrites>>
            /\ UNCHANGED <<settings, ext, nPages, evictions, stitched, db,
                           outbox>>

EngineOutcomes == {"error", "pdf", "pdf_txt"}

\* run_one_page_ocr: reads the source file, writes the page's pdf and, when
\* text was recognised, its txt sidecar in the target page's folder.
run_one_page_ocr(c, doc_ver_id, target_page_id, out) ==
    IF DocverKey(doc_ver_id) \notin c.local \/ out = "error"
    THEN [c EXCEPT !.exc = "OcrError"]
    ELSE LET files == IF out = "pdf_txt" THEN PageDirKeys(target_page_id)
                      ELSE {PagePdf(target_page_id)}
         IN  [c EXCEPT !.local = @ \cup files, !.bad = @ \ files]

\* A worker takes a per-page task of the group from the queue.
ocr_page_task_received(i) ==
    /\ topSt = "submitted"
    /\ pageSt[i] = "pending"
    /\ pageSt' = [pageSt EXCEPT ![i] = "started"]
    /\ UNCHANGED <<pageWrites, settings, ext, nPages, local, bad, remote, evictions,
                   topSt, retries, attempts, topExc, delay, uuidCount,
                   firstIds, lastIds, prevIds, pageKw, chainKw, chainSt, stitched, db,
                   outbox, mirrorLog>>

\* Path.mkdir(parents=True, exist_ok=True)
mkdir(c, dir) == [c EXCEPT !.local = @ \cup {dir}]

\* The body of ocr_page_task: the context it leaves.
ocr_page_task_body(s, c0, d, kwargs, f, g, out) ==
    LET doc_ver == get_doc_ver(d, kwargs.doc_ver_id)
        cd == mkdir(mkdir(c0, PageDir(kwargs.target_page_id)), OcrDir)
        c1 == download_docver(s, cd, doc_ver.id, f, g)
        c2 == IF c1.exc # "none" THEN c1
              ELSE run_one_page_ocr(c1, doc_ver.id, kwargs.target_page_id,
                                    out)
    IN  IF c2.exc # "none" THEN c2
        ELSE upload_page_dir(s, c2, kwargs.target_page_id, g)

\* The keys of the logged calls that sent the named request and got 200.
Transferred(log, call) ==
    UNION {log[n].keys : n \in {m \in 1..Len(log) : \E j \in 1..Len(log[m].calls) : log[m].calls[j] = Call(call, "200")}}

\* What one execution of ocr_page_task wrote: the folders it made, the
\* source file it downloaded, the files of the engine (it ran to the end
\* exactly when upload_page_dir was called) and the objects it put.
ocr_page_task_writes(c0, c3, kwargs, out) ==
    LET made == {PageDir(kwargs.target_page_id), OcrDir} \ c0.local
        ran == \E n \in 1..Len(c3.log) : c3.log[n].op = "upload_page_dir"
        files == IF ~ran THEN {}
                 ELSE IF out = "pdf_txt"
                 THEN PageDirKeys(kwargs.target_page_id)
                 ELSE {PagePdf(kwargs.target_page_id)}
    IN  [local |-> made \cup Transferred(c3.log, "download_file") \cup files,
         remote |-> Transferred(c3.log, "upload_file")]

ocr_page_task(i) ==
    /\ topSt = "submitted"
    /\ pageSt[i] = "started"
    /\ \E f \in Faults, g \in Faults, out \in EngineOutcomes :
        LET c0 == Ctx(local, bad, remote, <<>>, "none")
            c3 == ocr_page_task_body(settings, c0, db, pageKw[i], f, g, out)
        IN  /\ pageWrites' = [pageWrites EXCEPT ![i] =
                                ocr_page_task_writes(c0, c3, pageKw[i], out)]
            /\ local' = c3.local
            /\ bad' = c3.bad
            /\ remote' = c3.remote
            /\ mirrorLog' = c3.log
            /\ pageSt' = [pageSt EXCEPT ![i] = IF c3.exc = "none"
                                               THEN "success" ELSE "failure"]
    /\ UNCHANGED <<settings, ext, nPages, evictions, topSt, retries, attempts,
                   topExc, delay, uuidCount, firstIds, lastIds, prevIds, pageKw,
                   chainKw, chainSt, stitched, db, outbox>>

\* utils.stitch_pdf: fails when a source is missing or is no pdf.
stitch_pdf(c, srcs, dst) ==
    IF \E i \in 1..Len(srcs) : srcs[i] \notin c.local \/ srcs[i] \in c.bad
    THEN [c EXCEPT !.exc = "PdfError"]
    ELSE [c EXCEPT !.local = @ \cup {dst}, !.bad = @ \ {dst}]

stitch_srcs_reversed(target_page_ids) ==
    [i \in 1..Len(target_page_ids) |->
        PagePdf(target_page_ids[Len(target_page_ids) + 1 - i])]

\* srcs = [abs_page_path(page_id) / PAGE_PDF for page_id in target_page_ids]
stitch_srcs(target_page_ids) ==
    [i \in 1..Len(target_page_ids) |-> PagePdf(target_page_ids[i])]

stitch_dst_source(kwargs) == DocverKey(kwargs.doc_ver_id)

\* dst = abs_docver_path(target_docver_id, doc_ver.file_name)
stitch_dst(kwargs) == DocverKey(kwargs.target_docver_id)

stitch_pages_task ==
    /\ topSt = "submitted"
    /\ chainSt["stitch"] = "waiting"
    /\ chord_ready(pageSt)
    /\ \E g \in Faults,
          gs \in [Range(chainKw["stitch"].target_page_ids) -> Faults],
          w \in SUBSET Range(chainKw["stitch"].target_page_ids) :
        LET kwargs == chainKw["stitch"]
            doc_ver == get_doc_ver(db, kwargs.doc_ver_id)
            dst == stitch_dst(kwargs)
            srcs == stitch_srcs(kwargs.target_page_ids)
            c0 == Ctx(local, bad, remote, <<>>, "none")
            c1 == download_pdf_pages(settings, c0, kwargs.target_page_ids,
                                     gs, w)
            c2 == IF c1.exc # "none" THEN c1 ELSE stitch_pdf(c1, srcs, dst)
            c3 == IF c2.exc # "none" THEN c2
                  ELSE upload_file(settings, c2, dst, g)
        IN  /\ local' = c3.local
            /\ bad' = c3.bad
            /\ remote' = c3.remote
            /\ mirrorLog' = c3.log
            /\ stitched' = IF c1.exc = "none" THEN srcs ELSE stitched
            /\ chainSt' = [chainSt EXCEPT !["stitch"] =
                            IF c3.exc = "none" THEN "success" ELSE "failure"]
    /\ UNCHANGED <<pageWrites, settings, ext, nPages, evictions, topSt, retries, attempts,
                   topExc, delay, uuidCount, firstIds, lastIds, prevIds, pageKw,
                   chainKw, pageSt, db, outbox>>

\* The loop of update_db_task over the new pages: [c, streams].
RECURSIVE page_streams(_, _, _, _, _, _)
page_streams(s, c, pages, streams, f, g) ==
    IF Len(streams) = Len(pages) \/ c.exc # "none"
    THEN [c |-> c, streams |-> streams]
    ELSE LET page_id == pages[Len(streams) + 1]
             c1 == download_page_txt(s, c, page_id, f, g)
             stream == IF PageTxt(page_id) \in c1.local THEN "ocr" ELSE ""
         IN  IF c1.exc # "none"
             THEN [c |-> c1, streams |-> streams]
             ELSE page_streams(s, c1, pages, Append(streams, stream), f, g)

update_db_task ==
    /\ topSt = "submitted"
    /\ chainSt["update_db"] = "waiting"
    /\ chain_ready(chainSt["stitch"])
    /\ \E f \in Faults, g \in Faults :
        LET kwargs == chainKw["update_db"]
            s0 == SessionOpen(db)
            s1 == increment_doc_ver(s0, kwargs.doc_id,
                                    kwargs.target_docver_id,
                                    kwargs.target_page_ids, kwargs.lang)
            pages == get_pages(SessionView(s1), kwargs.target_docver_id)
            r == page_streams(settings,
                              Ctx(local, bad, remote, <<>>, "none"),
                              pages, <<>>, f, g)
            s2 == IF r.c.exc # "none" THEN s1
                  ELSE update_doc_ver_text(s1, kwargs.target_docver_id,
                                           r.streams)
        IN  /\ local' = r.c.local
            /\ bad' = r.c.bad
            /\ remote' = r.c.remote
            /\ mirrorLog' = r.c.log
            /\ db' = SessionExit(s2)
            /\ chainSt' = [chainSt EXCEPT !["update_db"] =
                            IF r.c.exc = "none" THEN "success" ELSE "failure"]
    /\ UNCHANGED <<pageWrites, settings, ext, nPages, evictions, topSt, retries, attempts,
                   topExc, delay, uuidCount, firstIds, lastIds, prevIds, pageKw,
                   chainKw, pageSt, stitched, outbox>>

generate_preview ==
    /\ topSt = "submitted"
    /\ chainSt["preview"] = "waiting"
    /\ chain_ready(chainSt["update_db"])
    /\ outbox' = Append(outbox, [task |-> "S3_WORKER_GENERATE_PREVIEW",
                                 doc_id |-> chainKw["preview"].doc_id])
    /\ chainSt' = [chainSt EXCEPT !["preview"] = "success"]
    /\ mirrorLog' = <<>>
    /\ UNCHANGED <<pageWrites, settings, ext, nPages, local, bad, remote, evictions,
                   topSt, retries, attempts, topExc, delay, uuidCount,
                   firstIds, lastIds, prevIds, pageKw, chainKw, pageSt, stitched, db>>

notify_index_task ==
    /\ topSt = "submitted"
    /\ chainSt["notify"] = "waiting"
    /\ chain_ready(chainSt["preview"])
    /\ outbox' = Append(outbox, [task |-> "INDEX_ADD_DOCS",
                                 doc_id |-> chainKw["notify"].doc_id])
    /\ chainSt' = [chainSt EXCEPT !["notify"] = "success"]
    /\ mirrorLog' = <<>>
    /\ UNCHANGED <<pageWrites, settings, ext, nPages, local, bad, remote, evictions,
                   topSt, retries, attempts, topExc, delay, uuidCount,
                   firstIds, lastIds, prevIds, pageKw, chainKw, pageSt, stitched, db>>

Next ==
    \/ SourceUploaded
    \/ ColdCache
    \/ ocr_document_task
    \/ \E i \in 1..MaxPages : i <= Len(pageSt) /\ ocr_page_task_received(i)
    \/ \E i \in 1..MaxPages : i <= Len(pageSt) /\ ocr_page_task(i)
    \/ stitch_pages_task
    \/ update_db_task
    \/ generate_preview
    \/ notify_index_task

Spec == Init /\ [][Next]_vars

\* The broker delivers every queued message: a queued ocr_document_task is
\* eventually executed.
FairSpec == Spec /\ WF_vars(ocr_document_task)

\* ------------------------------------------------------------------ claims

\* C1: stitch_pages_task has run only if every ocr_page_task of the run has
\* succeeded, and the list it concatenates has one entry per source page,
\* the i-th being the pdf of the target page id handed to the per-page task
\* whose page_number is i.
C1_Barrier ==
    chainSt["stitch"] \in {"success", "failure"} =>
        /\ Len(pageSt) = nPages
        /\ \A i \in 1..Len(pageSt) : pageSt[i] = "success"
        /\ {pageKw[j].page_number : j \in 1..Len(pageKw)} = 1..nPages
        /\ stitched # <<>> =>
            /\ Len(stitched) = nPages
            /\ \A j \in 1..Len(pageKw) :
                /\ pageKw[j].page_number \in 1..Len(stitched)
                /\ stitched[pageKw[j].page_number]
                        = PagePdf(pageKw[j].target_page_id)

C1_Witness ==
    /\ nPages >= 2
    /\ chainSt["stitch"] = "success"
    /\ Len(stitched) = nPages

\* C3: when a per-page task or the stitch task of a run has failed,
\* update_db_task is never executed and the metadata store holds no new
\* version and no new page.
C3_NoCommitAfterFailure ==
    (\/ \E i \in 1..Len(pageSt) : pageSt[i] = "failure"
     \/ chainSt["stitch"] = "failure") =>
        /\ chainSt["update_db"] \in {"none", "waiting"}
        /\ db = <<SourceVersion(nPages)>>

C3_Witness ==
    /\ \E i \in 1..Len(pageSt) : pageSt[i] = "failure"
    /\ \E i \in 1..Len(pageSt) : pageSt[i] = "success"

\* The source version's file is absent locally and not visible remotely.
SourceAbsent ==
    /\ DocverKey(SrcDocVerId) \notin local
    /\ DocverKey(SrcDocVerId) \notin remote

\* The source version's file is absent locally and visible remotely.
SourceVisible ==
    /\ DocverKey(SrcDocVerId) \notin local
    /\ DocverKey(SrcDocVerId) \in remote

\* Every request logged was answered by the store as it is (no fault).
NoFault(log) ==
    \A i \in 1..Len(log) : \A j \in 1..Len(log[i].calls) :
        log[i].calls[j].resp \in {"200", "404"}

\* C2, step by step: with the mirror enabled and the store answering, an
\* execution of ocr_document_task that finds the source absent locally and
\* remotely is rescheduled with the fixed countdown while retries remain and
\* fails for good once they are used up; an execution that finds the source
\* visible remotely passes the source fetch, and submits the workflow when
\* the format is accepted.
C2_Step ==
    (attempts' = attempts + 1 /\ is_enabled(settings) /\ NoFault(mirrorLog'))
    =>
    /\ SourceAbsent =>
        /\ topExc' = "S3DocumentNotFound"
        /\ retries < max_retries =>
            /\ topSt' = "queued"
            /\ retries' = retries + 1
            /\ delay' = countdown
        /\ retries >= max_retries =>
            /\ topSt' = "failed"
            /\ retries' = retries
    /\ SourceVisible =>
        /\ topExc' \in {"none", "ValueError"}
        /\ DocverKey(SrcDocVerId) \in local'
        /\ guess_type(ext) \in SupportedTypes =>
            /\ topSt' = "submitted"
            /\ Len(pageSt') = nPages

\* C2: the steps above, and a queued ocr_document_task does not stay queued
\* for ever: the run ends submitted or failed.
C2_EventualConsistencyRetry ==
    /\ [][C2_Step]_vars
    /\ <>(topSt # "queued")

C2_Witness ==
    /\ is_enabled(settings)
    /\ retries >= 1
    /\ topSt = "submitted"

\* C4, as claimed: a retry of ocr_document_task reuses the target version id
\* and the target page ids of the first execution.
C4_RetryReusesIds == attempts >= 2 => lastIds = firstIds

\* C4, amended: every execution of ocr_document_task draws identifiers that
\* no earlier execution drew, and the workflow carries, in every signature,
\* the identifiers of the one execution that submitted it.
C4_FreshIdsPerAttempt ==
    /\ attempts >= 1 =>
        /\ Len(lastIds.pages) = nPages
        /\ Cardinality(IdsOf(lastIds)) = nPages + 1
        /\ IdsOf(lastIds) \cap prevIds = {}
        /\ SrcDocVerId \notin IdsOf(lastIds)
    /\ attempts >= 2 => IdsOf(firstIds) \subseteq prevIds
    /\ topSt = "submitted" =>
        /\ chainKw["stitch"].target_docver_id = lastIds.docver
        /\ chainKw["stitch"].target_page_ids = lastIds.pages
        /\ chainKw["update_db"].target_docver_id = lastIds.docver
        /\ chainKw["update_db"].target_page_ids = lastIds.pages
        /\ \A i \in 1..Len(pageKw) :
            /\ pageKw[i].target_docver_id = lastIds.docver
            /\ pageKw[i].target_page_id = lastIds.pages[i]
    /\ topSt # "submitted" => pageKw = <<>>

C4_Witness ==
    /\ attempts >= 2
    /\ topSt = "submitted"
    /\ chainSt["update_db"] = "success"

\* The s3 functions that fetch an object into the local cache.
FetchOps == {"download_docver", "download_page_txt", "download_pdf_pages"}

\* C5, as claimed: a fetch of objects that are all present locally sends no
\* request to the object store.
C5_NoRemoteCallWhenLocal ==
    \A i \in 1..Len(mirrorLog) :
        (mirrorLog[i].op \in FetchOps /\ mirrorLog[i].had)
            => mirrorLog[i].calls = <<>>

\* The new pages of the run whose txt sidecar is neither local nor remote.
PagesWithoutSidecar ==
    {p \in Range(lastIds.pages) :
        PageTxt(p) \notin local /\ PageTxt(p) \notin remote}

\* C6, as claimed: an execution of update_db_task in which the store answers
\* and some new page has no sidecar, locally or remotely, succeeds and
\* commits the empty text for that page.
C6_Step ==
    (/\ chainSt["update_db"] = "waiting"
     /\ chainSt'["update_db"] # "waiting"
     /\ PagesWithoutSidecar # {}
     /\ NoFault(mirrorLog'))
    =>
    /\ chainSt'["update_db"] = "success"
    /\ \A i \in 1..nPages :
        lastIds.pages[i] \in PagesWithoutSidecar
            => get_doc_ver(db', lastIds.docver).text[i] = ""

\* C6: every execution of update_db_task is as C6_Step says.
C6_EmptyTextWhenNoSidecar == [][C6_Step]_vars

\* C7: a reader of the metadata store sees, at every moment, either no row
\* of the new version or the version row, all its page rows and the text of
\* every page; an update_db_task that failed leaves nothing visible.
C7_AtomicCommit ==
    /\ db[1] = SourceVersion(nPages)
    /\ \A j \in 2..Len(db) :
        /\ Len(db[j].pages) = nPages
        /\ Len(db[j].text) = nPages
        /\ \A i \in 1..nPages : db[j].text[i] \in {"", "ocr"}
    /\ chainSt["update_db"] = "success" =>
        /\ Len(db) = 2
        /\ db[2].id = lastIds.docver
        /\ db[2].pages = lastIds.pages
    /\ chainSt["update_db"] # "success" => Len(db) = 1

\* update_db_task failed while fetching the sidecar of its second page.
C7_Witness ==
    /\ chainSt["update_db"] = "failure"
    /\ Len(mirrorLog) = 2
    /\ mirrorLog[1].exc = "none"
    /\ mirrorLog[2].op = "download_page_txt"
    /\ mirrorLog[2].exc # "none"

\* The source version's file name is neither a pdf's nor an image's.
UnsupportedSource == ext = "txt"

\* C8, as claimed: for an unsupported source ocr_document_task is executed
\* once and never requeued.
C8_ExecutedOnce == UnsupportedSource => (attempts <= 1 /\ retries = 0)

\* The execution of ocr_document_task that C8 is about.
C8_Step ==
    (attempts' = attempts + 1 /\ UnsupportedSource)
    =>
    /\ topExc' = "ValueError" <=>
        (\A i \in 1..Len(mirrorLog') : mirrorLog'[i].exc = "none")
    /\ topExc' = "ValueError" => (topSt' = "failed" /\ retries' = retries)
    /\ topSt' = "queued" =>
        /\ topExc' = "S3DocumentNotFound"
        /\ DocverKey(SrcDocVerId) \notin local
        /\ retries' = retries + 1

\* C8, amended: an unsupported source never gets a workflow; the execution
\* of ocr_document_task in which the source fetch passes raises the
\* unsupported-format error, which fails the run for good and is not
\* requeued; executions before it are requeued only for a source that is
\* not found, and a failed run is not executed again.
C8_UnsupportedFormatFatal ==
    /\ [](UnsupportedSource => topSt # "submitted")
    /\ [][C8_Step]_vars
    /\ [][topSt = "failed" => (attempts' = attempts /\ topSt' = "failed")]_vars

\* An unsupported source, requeued while absent, then failed on its format.
C8_Witness ==
    /\ UnsupportedSource
    /\ attempts >= 2
    /\ topSt = "failed"
    /\ topExc = "ValueError"

\* C9, as claimed: a fault of the object store other than "not found" met by
\* the existence check leaves the s3 function as that fault: it is not turned
\* into a missing object.
C9_FaultsPropagate ==
    \A i \in 1..Len(mirrorLog) : \A j \in 1..Len(mirrorLog[i].calls) :
        (/\ mirrorLog[i].calls[j].call = "head_object"
         /\ mirrorLog[i].calls[j].resp \in {"403", "net"})
        => mirrorLog[i].exc \in {"ClientError", "ConnectionError"}

\* One of bucket name, access key id and secret access key is unset.
SomeSettingUnset == ~settings.bucket \/ ~settings.key_id \/ ~settings.secret

\* C10: with one of the three settings unset, every s3 function called
\* returns without an exception, without a request to the store and without
\* a change of the local files, and ocr_document_task is never requeued.
C10_DisabledMirror ==
    SomeSettingUnset =>
        /\ \A i \in 1..Len(mirrorLog) :
            /\ mirrorLog[i].calls = <<>>
            /\ mirrorLog[i].exc = "none"
            /\ ~mirrorLog[i].changed
        /\ remote \subseteq {DocverKey(SrcDocVerId)}
        /\ retries = 0
        /\ topExc # "S3DocumentNotFound"

\* The source file is missing and the mirror is disabled: download_docver
\* was called and the workflow was submitted all the same.
C10_Witness ==
    /\ SomeSettingUnset
    /\ DocverKey(SrcDocVerId) \notin local
    /\ attempts = 1
    /\ topSt = "submitted"
    /\ Len(mirrorLog) = 1
    /\ mirrorLog[1].op = "download_docver"

\* C11, as claimed: when the GET of one missing page is answered with
\* anything but success, download_pdf_pages does not return normally: it
\* leaves with an error.
C11_BatchAllOrNothing ==
    \A i \in 1..Len(mirrorLog) :
        (/\ mirrorLog[i].op = "download_pdf_pages"
         /\ \E j \in 1..Len(mirrorLog[i].calls) :
                mirrorLog[i].calls[j].resp # "200")
        => mirrorLog[i].exc # "none"

\* The messages of the outbox sent to the named task.
SentTo(task) == {i \in 1..Len(outbox) : outbox[i].task = task}

\* C12: at most one preview-generation message and one index message are
\* ever sent, each carries the id of the document the run was submitted for,
\* none is sent before update_db_task has succeeded, and a run that ended
\* successfully has sent exactly one of each, the preview one first.
C12_OneNotificationEach ==
    /\ Cardinality(SentTo("S3_WORKER_GENERATE_PREVIEW")) <= 1
    /\ Cardinality(SentTo("INDEX_ADD_DOCS")) <= 1
    /\ \A i \in 1..Len(outbox) : outbox[i].doc_id = DocumentId
    /\ outbox # <<>> => chainSt["update_db"] = "success"
    /\ chainSt["notify"] = "success" =>
        outbox = <<[task |-> "S3_WORKER_GENERATE_PREVIEW",
                    doc_id |-> DocumentId],
                   [task |-> "INDEX_ADD_DOCS", doc_id |-> DocumentId]>>

C12_Witness ==
    /\ chainSt["notify"] = "success"
    /\ Len(outbox) = 2
    /\ nPages >= 2

\* The s3 function calls of the last task that put an object.
Puts == {i \in 1..Len(mirrorLog) : \E j \in 1..Len(mirrorLog[i].calls) : mirrorLog[i].calls[j].call = "upload_file"}

\* C13: no task puts the source version's key, the source version's row
\* (id, pages, text) stays what it was, the stitched file is stored
\* under a target version id that differs from the source version id, and
\* after a successful run the document's latest version is the new one, with
\* the page ids allocated by the submitting attempt, none of them a page id
\* of the source version.
C13_SourceVersionUnchanged ==
    /\ \A i \in Puts : DocverKey(SrcDocVerId) \notin mirrorLog[i].keys
    /\ db[1] = SourceVersion(nPages)
    /\ chainSt["stitch"] = "success" =>
        /\ chainKw["stitch"].target_docver_id # SrcDocVerId
        /\ is_enabled(settings) => DocverKey(lastIds.docver) \in remote
    /\ chainSt["notify"] = "success" =>
        /\ Len(db) = 2
        /\ get_last_version(db).id = lastIds.docver
        /\ get_last_version(db).id # SrcDocVerId
        /\ get_last_version(db).pages = lastIds.pages
        /\ Range(lastIds.pages) \cap Range(db[1].pages) = {}
        /\ Cardinality(Range(lastIds.pages)) = nPages

C13_Witness ==
    /\ chainSt["notify"] = "success"
    /\ is_enabled(settings)
    /\ DocverKey(lastIds.docver) \in remote
    /\ attempts >= 2

\* The storage left by a step is the one ocr_page_task i leaves with the
\* source probe answered f, the transfers g and the engine yielding out.
PageRun(i, f, g, out) ==
    LET c == ocr_page_task_body(settings, Ctx(local, bad, remote, <<>>, "none"), db, pageKw[i], f, g, out)
    IN  /\ pageSt[i] = "started"
        /\ pageSt'[i] \in {"success", "failure"}
        /\ local' = c.local
        /\ bad' = c.bad
        /\ remote' = c.remote
        /\ (pageSt'[i] = "success") = (c.exc = "none")

\* The same task executed once more on what the step left.
PageRerun(i, f, g, out) ==
    ocr_page_task_body(settings, Ctx(local', bad', remote', <<>>, "none"), db, pageKw[i], f, g, out)

C14_Step ==
    \A i \in 1..MaxPages, f \in Faults, g \in Faults, out \in EngineOutcomes :
        (i <= Len(pageSt) /\ PageRun(i, f, g, out)) =>
            /\ PageRerun(i, f, g, out).local = local'
            /\ PageRerun(i, f, g, out).bad = bad'
            /\ PageRerun(i, f, g, out).remote = remote'
            /\ pageSt'[i] = "success" => PageRerun(i, f, g, out).exc = "none"

\* C14: executing ocr_page_task once more with the same parameters, the
\* store and the engine answering as they did, leaves the local files and
\* folders and the remote objects exactly as the first execution left them,
\* and succeeds if the first execution did.
C14_PageTaskIdempotent == [][C14_Step]_vars

C14_Witness ==
    /\ is_enabled(settings)
    /\ \E i \in 1..Len(pageSt) :
        /\ pageSt[i] = "success"
        /\ PageDir(pageKw[i].target_page_id) \in local
        /\ PageDirKeys(pageKw[i].target_page_id) \subseteq local \cap remote

\* ------------------------------------------------- upload_file on its own
\* The relative paths upload_file is called with: the file of a version, a
\* page's pdf and a page's folder.
UploadPaths == {DocverKey(1), PagePdf(2), PageDir(2)}

\* Any of the paths may exist under the media root; the bucket is empty.
UploadInit ==
    /\ settings \in [bucket : BOOLEAN, key_id : BOOLEAN, secret : BOOLEAN]
    /\ ext = "pdf"
    /\ nPages = 1
    /\ local \in SUBSET UploadPaths
    /\ bad = {}
    /\ remote = {}
    /\ evictions = 0
    /\ topSt = "queued"
    /\ retries = 0
    /\ attempts = 0
    /\ topExc = "none"
    /\ delay = 0
    /\ uuidCount = 0
    /\ firstIds = NoIds
    /\ lastIds = NoIds
    /\ prevIds = {}
    /\ pageKw = <<>>
    /\ chainKw = <<>>
    /\ pageSt = <<>>
    /\ chainSt = [t \in ChainTasks |-> "none"]
    /\ stitched = <<>>
    /\ db = <<SourceVersion(nPages)>>
    /\ outbox = <<>>
    /\ mirrorLog = <<>>
    /\ pageWrites = <<>>

\* A caller calls upload_file(rel_file_path) and goes on if no exception
\* left the call.
upload_file_called ==
    /\ Len(mirrorLog) < MaxUploads
    /\ topExc = "none"
    /\ \E k \in UploadPaths, g \in Faults :
        LET c == upload_file(settings, Ctx(local, bad, remote, mirrorLog, "none"), k, g)
        IN  /\ local' = c.local
            /\ bad' = c.bad
            /\ remote' = c.remote
            /\ mirrorLog' = c.log
            /\ topExc' = c.exc
    /\ UNCHANGED <<pageWrites, settings, ext, nPages, evictions, topSt, retries, attempts,
                   delay, uuidCount, firstIds, lastIds, prevIds, pageKw,
                   chainKw, pageSt, chainSt, stitched, db, outbox>>

UploadNext == upload_file_called

UploadSpec == UploadInit /\ [][UploadNext]_vars

\* The calls of upload_file whose target was missing or no regular file.
SkippedUploads == {i \in 1..Len(mirrorLog) : mirrorLog[i].op = "upload_file" /\ (~mirrorLog[i].had \/ \E k \in mirrorLog[i].keys : ~is_file(k))}

\* C15: a call of upload_file whose local target is missing or is not a
\* regular file sends no request to the store, leaves the bucket and the
\* local files as they were and raises nothing, so the caller goes on.
C15_PublishSkipped ==
    /\ \A i \in SkippedUploads :
        /\ mirrorLog[i].calls = <<>>
        /\ mirrorLog[i].exc = "none"
        /\ ~mirrorLog[i].changed
    /\ (SkippedUploads = 1..Len(mirrorLog)) => (remote = {} /\ topExc = "none")

C15_Witness ==
    /\ is_enabled(settings)
    /\ Len(mirrorLog) = 2
    /\ ~mirrorLog[1].had
    /\ mirrorLog[2].had
    /\ mirrorLog[2].keys = {PageDir(2)}
    /\ topExc = "none"

\* What a step that schedules a retry does, and that nothing is scheduled
\* once the run has failed.
C16_Step ==
    /\ retries' # retries =>
        /\ retries' = retries + 1
        /\ attempts' = attempts + 1
        /\ topExc' = "S3DocumentNotFound"
        /\ topSt' = "queued"
        /\ delay' = 10
    /\ topSt = "failed" =>
        /\ topSt' = "failed"
        /\ attempts' = attempts
        /\ retries' = retries

\* C16: a submission is retried at most 6 times, hence attempted at most 7
\* times, every retry is scheduled 10 seconds after an attempt that ended
\* in S3DocumentNotFound, a run that failed on S3DocumentNotFound has used
\* all 6 retries, and a failed run is never attempted again.
C16_BoundedRetry ==
    /\ [](retries <= 6 /\ attempts <= retries + 1)
    /\ [](delay = IF retries = 0 THEN 0 ELSE 10)
    /\ []((topSt = "failed" /\ topExc = "S3DocumentNotFound") =>
            (retries = 6 /\ attempts = 7))
    /\ [][C16_Step]_vars

C16_Witness ==
    /\ topSt = "failed"
    /\ topExc = "S3DocumentNotFound"
    /\ retries = 6
    /\ attempts = 7
    /\ delay = 10

Finished == {"success", "failure"}

\* The step before each step of the chain, as the status it must have.
PredecessorDone(t) ==
    CASE t = "stitch" -> pageSt # <<>> /\ \A i \in 1..Len(pageSt) : pageSt[i] = "success"
      [] t = "update_db" -> chainSt["stitch"] = "success"
      [] t = "preview" -> chainSt["update_db"] = "success"
      [] t = "notify" -> chainSt["preview"] = "success"

\* The order of the steps, as a property of every state.
C17_Order ==
    /\ topSt # "submitted" =>
        (pageSt = <<>> /\ \A t \in ChainTasks : chainSt[t] = "none")
    /\ topSt = "submitted" =>
        (Len(pageSt) = nPages /\ topExc = "none" /\ attempts >= 1)
    /\ \A t \in ChainTasks : chainSt[t] \in Finished => PredecessorDone(t)

\* Every status moves forward only, a step of the chain is executed in a
\* state where its predecessor has succeeded, and the top-level task leaves
\* "queued" only to "submitted" or "failed", which it never leaves.
C17_Step ==
    /\ topSt' # topSt => (topSt = "queued" /\ topSt' \in {"submitted", "failed"})
    /\ pageSt # <<>> =>
        /\ Len(pageSt') = Len(pageSt)
        /\ \A i \in 1..Len(pageSt) :
            pageSt'[i] # pageSt[i] =>
                <<pageSt[i], pageSt'[i]>> \in
                    {<<"pending", "started">>, <<"started", "success">>,
                     <<"started", "failure">>}
    /\ \A t \in ChainTasks :
        chainSt'[t] # chainSt[t] =>
            \/ chainSt[t] = "none" /\ chainSt'[t] = "waiting" /\ topSt = "queued"
            \/ chainSt[t] = "waiting" /\ chainSt'[t] \in Finished /\ PredecessorDone(t)
    /\ (topSt = "queued" /\ topSt' = "queued" /\ attempts' # attempts) =>
        (retries' = retries + 1 /\ UNCHANGED <<pageSt, chainSt>>)

\* C17: the steps of a run are executed in the order source fetch, per-page
\* OCR, stitch, commit, preview notification, index notification; a step
\* runs only after its predecessor succeeded, none is skipped, and the only
\* way back is the retry that leaves the top-level task queued.
C17_StrictOrder == []C17_Order /\ [][C17_Step]_vars

C17_Witness ==
    /\ chainSt["notify"] = "success"
    /\ retries >= 1
    /\ nPages >= 2

\* C18, as claimed: the per-page tasks of a run that share a media root (no
\* task ran on a cold cache) write disjoint sets of local paths and of
\* remote keys, each inside the folder and under the prefix of its own
\* target page.
C18_DisjointWrites ==
    evictions = 0 =>
        /\ \A i \in 1..Len(pageWrites), j \in 1..Len(pageWrites) :
            i # j =>
                /\ pageWrites[i].local \cap pageWrites[j].local = {}
                /\ pageWrites[i].remote \cap pageWrites[j].remote = {}
        /\ \A i \in 1..Len(pageWrites) :
            /\ pageWrites[i].local \subseteq
                PageDirKeys(pageKw[i].target_page_id) \cup {PageDir(pageKw[i].target_page_id), OcrDir}
            /\ pageWrites[i].remote \subseteq PageDirKeys(pageKw[i].target_page_id)

\* A step that changes the metadata store is the one execution of
\* update_db_task, and it succeeds; a finished update_db_task is not
\* executed again.
C19_Step ==
    /\ db' # db =>
        /\ chainSt["update_db"] = "waiting"
        /\ chainSt'["update_db"] = "success"
        /\ Len(db') = Len(db) + 1
        /\ UNCHANGED <<topSt, pageSt, outbox>>
    /\ chainSt["update_db"] \in Finished =>
        chainSt'["update_db"] = chainSt["update_db"]

\* C19: only update_db_task changes the metadata store, and a successful
\* run has executed it exactly once: the store then holds the source
\* version and one new version.
C19_OnlyCommitMutates ==
    /\ [][C19_Step]_vars
    /\ [](Len(db) = IF chainSt["update_db"] = "success" THEN 2 ELSE 1)
    /\ [](chainSt["notify"] = "success" => chainSt["update_db"] = "success")

C19_Witness ==
    /\ chainSt["notify"] = "success"
    /\ Len(db) = 2
    /\ \E i \in 1..Len(db[2].text) : db[2].text[i] = "ocr"
    /\ retries >= 1

\* The target identifiers carried by the tasks of the submitted graph.
TaskIds ==
    {pageKw[i].target_page_id : i \in 1..Len(pageKw)}
        \cup {pageKw[i].target_docver_id : i \in 1..Len(pageKw)}
        \cup (IF chainKw = <<>> THEN {}
              ELSE {chainKw["stitch"].target_docver_id,
                    chainKw["update_db"].target_docver_id}
                   \cup Range(chainKw["stitch"].target_page_ids)
                   \cup Range(chainKw["update_db"].target_page_ids))

\* An attempt that ends in an exception submits no task, puts no object and
\* changes no row; the graph is submitted by an attempt without exception,
\* once, and the submitted graph and the attempt count never change again.
C20_Step ==
    /\ attempts' # attempts =>
        /\ topSt = "queued"
        /\ pageKw = <<>> /\ chainKw = <<>>
        /\ UNCHANGED <<remote, db, outbox>>
        /\ topExc' # "none" =>
            /\ topSt' \in {"queued", "failed"}
            /\ UNCHANGED <<pageKw, chainKw, pageSt, chainSt>>
        /\ topExc' = "none" => topSt' = "submitted"
    /\ topSt = "submitted" => UNCHANGED <<pageKw, chainKw, attempts, lastIds, prevIds>>

\* C20: the task graph is submitted at most once, by an attempt that raised
\* nothing; failed attempts submit nothing and write neither the bucket nor
\* the metadata store; the identifiers carried by the submitted tasks are
\* those of the submitting attempt, never those of an earlier attempt.
C20_SubmittedOnce ==
    /\ [][C20_Step]_vars
    /\ [](topSt # "submitted" => (TaskIds = {} /\ Len(db) = 1 /\ outbox = <<>>))
    /\ [](topSt = "submitted" => (TaskIds = IdsOf(lastIds) /\ topExc = "none"))
    /\ [](TaskIds \cap prevIds = {})

C20_Witness ==
    /\ topSt = "submitted"
    /\ retries >= 2
    /\ prevIds # {}
    /\ chainSt["notify"] = "success"

====
